---- MODULE Spec2Model ----
(***************************************************************************)
(* A model of ddp-dump (src/index.js): command line processing, the        *)
(* "output path => [collections]" mapping, the idle-timeout completion     *)
(* detector and the export (write all destinations, then close).           *)
(*                                                                         *)
(* Strings are sequences of one-character strings, so that path            *)
(* formatting (util.format) is computed character by character.            *)
(***************************************************************************)
EXTENDS Integers, Sequences, FiniteSets, TLC

VARIABLES
    argv,              \* the parsed command line (nopt): colls, output, all, timeout, url
    options,           \* the options object after processCliOptions
    pathToCollectionMapping, \* sequence of [path, colls], in key insertion order
    pc,                \* "main" | "connecting" | "failed" | "running" | "exited";
                       \* "format" in the formatPath harness
    exitCode,          \* <<>> while the process runs, <<n>> after it exited
    exitReason,        \* which error message main printed before process.exit(1)
    \* clock and completion detector
    now,               \* new Date().getTime()
    timers,            \* pending setTimeout callbacks of waitForTimeout: due times
    fired,             \* number of calls of receivedLastDDPMessage
    rescheduled,       \* some check found elapsed <= timeout and re-armed
    \* ddp client
    collections,       \* ddp.collections: sequence of [name, rows]
    msgCount,          \* inbound data messages so far
    subAcked,          \* indices of colls whose subscribe callback has run
    subErr,            \* indices of colls whose subscribe callback carried an error
    subJoinDone,       \* async.map(colls, ...) has called its final callback
    subscribed,        \* indices of colls ddp.subscribe was called for
    closeCount,        \* number of calls of ddp.close()
    \* writing
    filepaths,         \* Object.keys(pathToCollectionMapping) at completion
    sinkCalls,         \* per destination index: calls of writeData
    sinkData,          \* per destination index: the buffer handed to the writer
    writeState,        \* per destination index: "inflight" | "ok" | "err"
    writeJoinDone,     \* async.map(filepaths, ...) has called its final callback
    reportedErr,       \* finish(err) printed the error summary
    noCollectionsInfo, \* info('No collections received') was printed
    closedWithInflight,\* ddp.close() ran while some write was still in flight
    \* harness applying formatPath to one (filename, name)
    fmtFilename, fmtName, fmtResult

vars == << argv, options, pathToCollectionMapping, pc, exitCode, exitReason,
           now, timers, fired, rescheduled,
           collections, msgCount, subAcked, subErr, subJoinDone, subscribed,
           closeCount, filepaths, sinkCalls, sinkData, writeState,
           writeJoinDone, reportedErr, noCollectionsInfo, closedWithInflight,
           fmtFilename, fmtName, fmtResult >>

----------------------------------------------------------------------------
(* Bounds *)

MaxLen == 3            \* longest output template, in characters
MaxColls == 2          \* most collections on the command line
MaxFiles == 2          \* most --output options
MaxTimeoutTicks == 1   \* largest --timeout, in clock ticks
MaxMsgs == 2           \* inbound data messages before the server goes quiet
MaxRows == 1           \* rows tracked per collection

(* Program constants *)

defaultTimeout == 800

\* the clock is read every half default timeout
TickMs == defaultTimeout \div 2

----------------------------------------------------------------------------
(* JavaScript values *)

Undefined == << "undefined" >>     \* the value undefined (not a string)
Null == << "null" >>               \* the value null (not a string)
NoErr == "noerr"                   \* callback(null | undefined, ...)

Str_json == << "%", "s", ".", "j", "s", "o", "n" >>   \* '%s.json'
Str_null == << "n", "u", "l", "l" >>                  \* String(null)
Str_NaN == << "N", "a", "N" >>                        \* String(Number('cats'))
Str_pct_s == << "%", "s" >>                           \* '%s'
Str_pct == << "%" >>                                  \* '%'

RECURSIVE SeqsUpTo(_, _)
SeqsUpTo(S, n) ==
    IF n = 0 THEN { << >> }
    ELSE LET shorter == SeqsUpTo(S, n - 1)
         IN  shorter \cup { Append(s, x) : s \in shorter, x \in S }

Max(a, b) == IF a >= b THEN a ELSE b

\* String.prototype.indexOf(sub): 0-based index of the first occurrence, or -1
IndexOf(s, sub) ==
    LET hits == { i \in 1..(Len(s) - Len(sub) + 1) :
                    SubSeq(s, i, i + Len(sub) - 1) = sub }
    IN  IF hits = {} THEN 0 - 1
        ELSE (CHOOSE i \in hits : \A j \in hits : i <= j) - 1

\* Array.prototype.indexOf(x) on a sequence
ArrayIndexOf(arr, x) ==
    LET hits == { i \in 1..Len(arr) : arr[i] = x }
    IN  IF hits = {} THEN 0 - 1
        ELSE (CHOOSE i \in hits : \A j \in hits : i <= j) - 1

\* util.format(f, name) with one argument after the format string: the
\* regular expression /%[sdj%]/g is matched left to right; '%%' yields '%';
\* '%s' and '%d' consume the argument while one is left and stay as they are
\* afterwards; an argument no placeholder consumed is appended after a space.
RECURSIVE FormatFrom(_, _, _, _)
FormatFrom(f, i, used, name) ==
    IF i > Len(f) THEN (IF used THEN << >> ELSE << " " >> \o name)
    ELSE IF f[i] = "%" /\ i < Len(f) /\ f[i + 1] \in { "s", "d", "%" }
    THEN IF f[i + 1] = "%" THEN << "%" >> \o FormatFrom(f, i + 2, used, name)
         ELSE IF used THEN << f[i], f[i + 1] >> \o FormatFrom(f, i + 2, used, name)
         ELSE IF f[i + 1] = "s" THEN name \o FormatFrom(f, i + 2, TRUE, name)
         ELSE Str_NaN \o FormatFrom(f, i + 2, TRUE, name)
    ELSE << f[i] >> \o FormatFrom(f, i + 1, used, name)

util_format(f, name) == FormatFrom(f, 1, FALSE, name)

\* formatPath(filename, name), index.js 209-217
formatPath(filename, name) ==
    LET f == IF filename = Undefined \/ filename = << >> THEN Str_json
             ELSE filename
    IN  IF IndexOf(f, Str_pct) # 0 - 1 THEN util_format(f, name) ELSE f

----------------------------------------------------------------------------
(* Command line processing, index.js 110-172 and 351-369 *)

\* url.parse(o.url).protocol is neither 'ws:' nor 'wss:' (114-118)
UnknownProtocol(o) == o.url # "none" /\ o.url # "ws:" /\ o.url # "wss:"

\* o.timeout after "if (!o.timeout)" (131-133); an absent and a zero
\* --timeout are both falsy
optTimeout(o) ==
    IF o.timeout = << >> \/ o.timeout[1] = 0
    THEN (IF o.all THEN defaultTimeout ELSE 0)
    ELSE o.timeout[1]

\* o.files[0].indexOf('%s') !== -1 (144)
HasMarker(f) == IndexOf(f, Str_pct_s) # 0 - 1

\* the two process.exit(1) of the output file settings (148-151, 164-167)
outputErrorMoreFiles(o) ==
    IF Len(o.output) = 0 THEN "none"
    ELSE IF HasMarker(o.output[1])
    THEN (IF Len(o.output) > 1 THEN "one-output-with-marker" ELSE "none")
    ELSE IF Len(o.output) = Len(o.colls) THEN "none"
    ELSE IF Len(o.output) > Len(o.colls) THEN "more-files-than-collections"
    ELSE "none"

outputError(o) ==
    IF Len(o.output) = 0 THEN "none"
    ELSE IF HasMarker(o.output[1])
    THEN (IF Len(o.output) > 1 THEN "one-output-with-marker" ELSE "none")
    ELSE IF Len(o.output) = Len(o.colls) THEN "none"
    ELSE IF Len(o.output) > 1 THEN "more-files-than-collections"
    ELSE "none"

\* o.mergeCollections (141-162)
optMergeCollections(o) ==
    ~ (Len(o.output) > 0
       /\ (HasMarker(o.output[1]) \/ Len(o.output) = Len(o.colls)))

\* o.files (138, 153-158): the '%s' entry is repeated once per collection
optFiles(o) ==
    IF Len(o.output) > 0 /\ HasMarker(o.output[1]) /\ Len(o.colls) > 0
    THEN [ i \in 1..Len(o.colls) |-> o.output[1] ]
    ELSE o.output

\* processCliOptions(o) when it returns (110-172)
processCliOptions(o) ==
    [ colls |-> o.colls,
      all |-> o.all,
      timeout |-> optTimeout(o),
      files |-> optFiles(o),
      saveToFile |-> Len(o.output) > 0,
      mergeCollections |-> optMergeCollections(o),
      lastMessageDate |-> 0 ]

\* generateFilename(collName, i) with i counted from 1 (219-229); files[i]
\* past the end of the array is undefined
generateFilenameFirst(opts, collName, i) ==
    IF opts.saveToFile
    THEN formatPath(opts.files[1], collName)
    ELSE Null

generateFilename(opts, collName, i) ==
    IF opts.saveToFile
    THEN formatPath(IF opts.mergeCollections THEN opts.files[1]
                    ELSE IF i <= Len(opts.files) THEN opts.files[i]
                    ELSE Undefined,
                    collName)
    ELSE Null

\* the property key a path is stored under: String(path)
PropertyKey(path) == IF path = Null THEN Str_null ELSE path

KeyIndex(mapping, key) ==
    LET hits == { k \in 1..Len(mapping) : mapping[k].path = key }
    IN  IF hits = {} THEN 0 ELSE CHOOSE k \in hits : TRUE

\* addPathToMapping(mapping, path, collName) (233-240)
addPathToMappingOverwrite(mapping, path, collName) ==
    LET key == PropertyKey(path)
        k == KeyIndex(mapping, key)
    IN  IF k = 0
        THEN Append(mapping, [ path |-> key, colls |-> << collName >> ])
        ELSE [ mapping EXCEPT ![k].colls = << collName >> ]

addPathToMapping(mapping, path, collName) ==
    LET key == PropertyKey(path)
        k == KeyIndex(mapping, key)
    IN  IF k = 0
        THEN Append(mapping, [ path |-> key, colls |-> << collName >> ])
        ELSE [ mapping EXCEPT ![k].colls = Append(@, collName) ]

\* options.colls.reduce(...) of 365-369, over the first n collections
RECURSIVE initialMapping(_, _)
initialMapping(opts, n) ==
    IF n = 0 THEN << >>
    ELSE addPathToMapping(initialMapping(opts, n - 1),
                          generateFilename(opts, opts.colls[n], n),
                          opts.colls[n])

\* Object.keys(mapping)
ObjectKeys(mapping) == [ k \in 1..Len(mapping) |-> mapping[k].path ]

\* the error main exits on before any connection is made, "none" otherwise
startupError(o) ==
    IF Len(o.colls) = 0 /\ ~ o.all THEN "no-collection"
    ELSE IF UnknownProtocol(o) THEN "unknown-protocol"
    ELSE outputError(o)

\* the main script, 351-386: from the parsed command line to ddp.connect
Main ==
    /\ pc = "main"
    /\ IF startupError(argv) # "none"
       THEN /\ pc' = "exited"
            /\ exitCode' = << 1 >>
            /\ exitReason' = startupError(argv)
            /\ UNCHANGED << options, pathToCollectionMapping >>
       ELSE /\ pc' = "connecting"
            /\ options' = [ processCliOptions(argv) EXCEPT !.lastMessageDate = now ]
            /\ pathToCollectionMapping' =
                   initialMapping(processCliOptions(argv), Len(argv.colls))
            /\ UNCHANGED << exitCode, exitReason >>
    /\ UNCHANGED << argv, now, timers, fired, rescheduled, collections, msgCount,
                    subAcked, subErr, subJoinDone, subscribed, closeCount,
                    filepaths, sinkCalls, sinkData, writeState, writeJoinDone,
                    reportedErr, noCollectionsInfo,
                    closedWithInflight, fmtFilename, fmtName, fmtResult >>

----------------------------------------------------------------------------
(* The run: connect, subscribe, wait for the idle timeout, write, close *)

UnchangedCfg == UNCHANGED << argv, exitReason, fmtFilename, fmtName, fmtResult >>
UnchangedWrites ==
    UNCHANGED << filepaths, sinkCalls, sinkData, writeState, writeJoinDone,
                 reportedErr, noCollectionsInfo, closedWithInflight, closeCount, fired >>

\* async.map(arr, iterator, callback): whether an iterator callback carrying
\* err calls the final callback, given the number of iterator callbacks
\* without error so far (this one included), the length of arr and whether
\* the final callback was called already. The first error calls it at once.
asyncMapCallsFinal(err, completed, n, done) ==
    ~ done /\ (err # NoErr \/ completed >= n)

\* what subscribeToCollection hands to async.map's callback as error (245)
subscribeCallbackErrPassed(err) == err

subscribeCallbackErr(err) == NoErr

\* the comparison of waitForTimeout's check (256)
idleExpiredGeq(t, last, limit) == t - last >= limit
idleExpiredSwapped(t, last, limit) == last - t > limit

idleExpired(t, last, limit) == t - last > limit

\* setTimeout(check, options.timeout) of waitForTimeout (254, 261)
waitForTimeout(pending, t, limit) == Append(pending, t + limit)

RemoveAt(seq, k) == [ i \in 1..(Len(seq) - 1) |-> IF i < k THEN seq[i] ELSE seq[i + 1] ]

\* the collection store lookup ddp.collections[name]
StoreIndex(store, name) ==
    LET hits == { k \in 1..Len(store) : store[k].name = name }
    IN  IF hits = {} THEN 0 ELSE CHOOSE k \in hits : TRUE

\* the index receivedLastDDPMessage hands to generateFilename (289), counted
\* from 1
discoverFileIndexNext(opts) == Len(opts.colls) + 1

discoverFileIndex(opts) == 1

\* whether receivedLastDDPMessage maps and pushes a collection of the
\* store: only one that is not in options.colls yet (286)
discoversEvery(colls, collName) == TRUE

discovers(colls, collName) == ArrayIndexOf(colls, collName) = 0 - 1

\* receivedLastDDPMessage, 283-294: every collection of the store that is not
\* in options.colls is mapped with generateFilename(collName, 0) and pushed
RECURSIVE discover(_, _, _, _)
discover(opts, mapping, store, n) ==
    IF n = 0 THEN [ opts |-> opts, mapping |-> mapping ]
    ELSE LET before == discover(opts, mapping, store, n - 1)
             collName == store[n].name
         IN  IF discovers(before.opts.colls, collName)
             THEN [ opts |-> [ before.opts EXCEPT !.colls = Append(@, collName) ],
                    mapping |-> addPathToMapping(
                                    before.mapping,
                                    generateFilename(before.opts, collName,
                                                     discoverFileIndex(before.opts)),
                                    collName) ]
             ELSE before

\* the extension of the mapping at completion: only with --all and a
\* non-empty store (283)
extendMappingAlways(opts, mapping, store) ==
    discover(opts, mapping, store, Len(store))

extendMapping(opts, mapping, store) ==
    IF opts.all /\ Len(store) > 0
    THEN discover(opts, mapping, store, Len(store))
    ELSE [ opts |-> opts, mapping |-> mapping ]

\* the reduce of writeData, 306-317: an object keyed by collection name, as a
\* sequence of [name, rows] in key insertion order
writeDataBufferWholeStore(cols, store, n) == store

RECURSIVE writeDataBufferKeepAbsent(_, _, _)
writeDataBufferKeepAbsent(cols, store, n) ==
    IF n = 0 THEN << >>
    ELSE LET data == writeDataBufferKeepAbsent(cols, store, n - 1)
             at == StoreIndex(store, cols[n])
         IN  IF \E k \in 1..Len(data) : data[k].name = cols[n] THEN data
             ELSE IF at = 0 THEN Append(data, [ name |-> cols[n], rows |-> 0 ])
             ELSE Append(data, store[at])

RECURSIVE writeDataBuffer(_, _, _)
writeDataBuffer(cols, store, n) ==
    IF n = 0 THEN << >>
    ELSE LET data == writeDataBuffer(cols, store, n - 1)
             at == StoreIndex(store, cols[n])
         IN  IF at = 0 THEN data
             ELSE IF \E k \in 1..Len(data) : data[k].name = cols[n] THEN data
             ELSE Append(data, store[at])

\* writeLog calls back at once and without error (199-202); writeJSON calls
\* back when fs.writeFile is done (204-207)
writerIsSynchronous(opts) == ~ opts.saveToFile

Inflight(ws) == { i \in 1..Len(ws) : ws[i] = "inflight" }
Succeeded(ws) == { i \in 1..Len(ws) : ws[i] = "ok" }

\* finish(err), 323-329
finishReturnsOnError(err, ws) ==
    /\ reportedErr' = (reportedErr \/ err # NoErr)
    /\ closeCount' = IF err # NoErr THEN closeCount ELSE closeCount + 1
    /\ closedWithInflight' =
           (closedWithInflight \/ (err = NoErr /\ Inflight(ws) # {}))

finish(err, ws) ==
    /\ reportedErr' = (reportedErr \/ err # NoErr)
    /\ closeCount' = closeCount + 1
    /\ closedWithInflight' = (closedWithInflight \/ Inflight(ws) # {})

\* the test before info('No collections received') (297-299)
noCollectionsReceivedNever(keys) == FALSE

noCollectionsReceived(keys) == Len(keys) = 0

\* receivedLastDDPMessage, 282-302, with the calls of writeData it makes
receivedLastDDPMessage ==
    \E ext \in { extendMapping(options, pathToCollectionMapping, collections) } :
    \E ws \in { [ i \in 1..Len(ext.mapping) |->
                  IF writerIsSynchronous(options) THEN "ok" ELSE "inflight" ] } :
        /\ fired' = fired + 1
        /\ options' = ext.opts
        /\ pathToCollectionMapping' = ext.mapping
        /\ filepaths' = ObjectKeys(ext.mapping)
        /\ noCollectionsInfo' =
               (noCollectionsInfo \/ noCollectionsReceived(ObjectKeys(ext.mapping)))
        /\ sinkCalls' = [ i \in 1..Len(ext.mapping) |->
                            (IF i <= Len(sinkCalls) THEN sinkCalls[i] ELSE 0) + 1 ]
        /\ sinkData' = [ i \in 1..Len(ext.mapping) |->
                           writeDataBuffer(ext.mapping[i].colls, collections,
                                           Len(ext.mapping[i].colls)) ]
        /\ writeState' = ws
        /\ IF asyncMapCallsFinal(NoErr, Cardinality(Succeeded(ws)),
                                 Len(ext.mapping), FALSE)
           THEN /\ writeJoinDone' = TRUE
                /\ finish(NoErr, ws)
           ELSE /\ writeJoinDone' = FALSE
                /\ UNCHANGED << reportedErr, closeCount, closedWithInflight >>

Running == pc = "running" /\ closeCount = 0

\* the connect callback's test of the error ddp hands it (398-401)
connectReturnsNever(ddpErr) == FALSE

connectReturns(ddpErr) == ddpErr # NoErr

\* the connect callback's test `options.colls.length === 0` (405)
connectWaitsAtOnceAlways(opts) == TRUE

connectWaitsAtOnce(opts) == Len(opts.colls) = 0

\* the connect callback after its error test, 405-410: start the detector, or
\* call ddp.subscribe for every requested collection
connectProceeds ==
    IF connectWaitsAtOnce(options)
    THEN /\ timers' = waitForTimeout(timers, now, options.timeout)
         /\ UNCHANGED subscribed
    ELSE /\ subscribed' = 1..Len(options.colls)
         /\ UNCHANGED timers

\* the connect callback without error, 396-411; the 'connected' message also
\* runs the message handler (388-393)
ConnectOk ==
    /\ pc = "connecting"
    /\ pc' = "running"
    /\ options' = [ options EXCEPT !.lastMessageDate = now ]
    /\ IF connectReturns(NoErr)
       THEN UNCHANGED << timers, subscribed >>
       ELSE connectProceeds
    /\ UNCHANGED << pathToCollectionMapping, exitCode, now, rescheduled,
                    collections, msgCount, subAcked, subErr, subJoinDone >>
    /\ UnchangedWrites
    /\ UnchangedCfg

\* the connect callback with an error, 398-401
ConnectFailed ==
    /\ pc = "connecting"
    /\ pc' = "failed"
    /\ IF connectReturns("connerr")
       THEN UNCHANGED << timers, subscribed >>
       ELSE connectProceeds
    /\ UNCHANGED << options, pathToCollectionMapping, exitCode, now,
                    rescheduled, collections, msgCount, subAcked, subErr,
                    subJoinDone >>
    /\ UnchangedWrites
    /\ UnchangedCfg

\* the subscriptions of 409 whose callbacks have called async.map's callback
\* without error
SubCompleted(acked, errs) ==
    { i \in acked :
        subscribeCallbackErr(IF i \in errs THEN "suberr" ELSE NoErr) = NoErr }

\* the callback of ddp.subscribe for colls[i] (244-246), then async.map's
\* join and processSubscribtionResults (264-280); the 'ready' or 'nosub'
\* message also runs the message handler
SubAck(i, err) ==
    /\ Running
    /\ i \in subscribed
    /\ i \notin subAcked
    /\ subAcked' = subAcked \cup { i }
    /\ subErr' = IF err # NoErr THEN subErr \cup { i } ELSE subErr
    /\ options' = [ options EXCEPT !.lastMessageDate = now ]
    /\ IF asyncMapCallsFinal(subscribeCallbackErr(err),
                             Cardinality(SubCompleted(subAcked', subErr')),
                             Len(argv.colls), subJoinDone)
       THEN /\ subJoinDone' = TRUE
            /\ timers' = waitForTimeout(timers, now, options.timeout)
       ELSE UNCHANGED << subJoinDone, timers >>
    /\ UNCHANGED << pathToCollectionMapping, pc, exitCode, now, rescheduled,
                    collections, msgCount, subscribed >>
    /\ UnchangedWrites
    /\ UnchangedCfg

\* ddp.on('message'), 388-393, for a message that changes no collection
MessageOther ==
    /\ Running
    /\ msgCount < MaxMsgs
    /\ msgCount' = msgCount + 1
    /\ options' = [ options EXCEPT !.lastMessageDate = now ]
    /\ UNCHANGED << pathToCollectionMapping, pc, exitCode, now, timers,
                    rescheduled, collections, subAcked, subErr,
                    subJoinDone, subscribed >>
    /\ UnchangedWrites
    /\ UnchangedCfg

\* ddp.on('message') for an 'added' message: the ddp client has put the row
\* into ddp.collections[name]
MessageAdded(name) ==
    /\ Running
    /\ msgCount < MaxMsgs
    /\ msgCount' = msgCount + 1
    /\ options' = [ options EXCEPT !.lastMessageDate = now ]
    /\ LET at == StoreIndex(collections, name)
       IN  IF at = 0
           THEN collections' = Append(collections, [ name |-> name, rows |-> 1 ])
           ELSE /\ collections[at].rows < MaxRows
                /\ collections' = [ collections EXCEPT ![at].rows = @ + 1 ]
    /\ UNCHANGED << pathToCollectionMapping, pc, exitCode, now, timers,
                    rescheduled, subAcked, subErr, subJoinDone, subscribed >>
    /\ UnchangedWrites
    /\ UnchangedCfg

\* the clock advances by one tick. Only differences of times are ever read
\* (256), so once now has reached MaxTime the window slides: the recorded
\* times move back instead, an elapsed time staying above every timeout.
MaxTime == Max(defaultTimeout, MaxTimeoutTicks * TickMs) + 2 * TickMs

Tick ==
    /\ pc \in { "connecting", "running" }
    /\ fired = 0 \/ timers # << >>
    /\ IF now + TickMs <= MaxTime
       THEN /\ now' = now + TickMs
            /\ UNCHANGED << options, timers >>
       ELSE /\ now' = now
            /\ options' = [ options EXCEPT
                              !.lastMessageDate = Max(@ - TickMs, 0) ]
            /\ timers' = [ k \in 1..Len(timers) |-> Max(timers[k] - TickMs, 0) ]
    /\ UNCHANGED << pathToCollectionMapping, pc, exitCode, rescheduled,
                    collections, msgCount, subAcked, subErr,
                    subJoinDone, subscribed >>
    /\ UnchangedWrites
    /\ UnchangedCfg

\* the pending timers after a check that found the idle time expired: the
\* check calls the callback and arms no further check (256-258)
timersAfterCompletionRearmed(pending, t, limit) ==
    waitForTimeout(pending, t, limit)

timersAfterCompletion(pending, t, limit) == pending

\* the callback of waitForTimeout's setTimeout, 254-261
TimerFire(k) ==
    /\ pc = "running"
    /\ k \in 1..Len(timers)
    /\ now >= timers[k]
    /\ IF idleExpired(now, options.lastMessageDate, options.timeout)
       THEN /\ timers' = timersAfterCompletion(RemoveAt(timers, k), now,
                                                options.timeout)
            /\ receivedLastDDPMessage
            /\ UNCHANGED rescheduled
       ELSE /\ timers' = waitForTimeout(RemoveAt(timers, k), now, options.timeout)
            /\ rescheduled' = TRUE
            /\ UNCHANGED << options, pathToCollectionMapping >>
            /\ UnchangedWrites
    /\ UNCHANGED << pc, exitCode, now, collections, msgCount, subAcked, subErr,
                    subJoinDone, subscribed >>
    /\ UnchangedCfg

\* the callback of fs.writeFile for destination i (206), then async.map's
\* join and finish (301, 323-329)
WriteDone(i, err) ==
    /\ pc = "running"
    /\ i \in Inflight(writeState)
    /\ writeState' = [ writeState EXCEPT ![i] = IF err = NoErr THEN "ok" ELSE "err" ]
    /\ IF asyncMapCallsFinal(err, Cardinality(Succeeded(writeState')),
                             Len(writeState), writeJoinDone)
       THEN /\ writeJoinDone' = TRUE
            /\ finish(err, writeState')
       ELSE UNCHANGED << writeJoinDone, reportedErr, closeCount,
                         closedWithInflight >>
    /\ UNCHANGED << options, pathToCollectionMapping, pc, exitCode, now, timers,
                    fired, rescheduled, collections, msgCount, subAcked, subErr,
                    subJoinDone, subscribed, filepaths, sinkCalls, sinkData,
                    noCollectionsInfo >>
    /\ UnchangedCfg

\* node exits with status 0 once nothing is pending: after ddp.close() and
\* the last write, or when the server drops the connection it refused
ProcessExit ==
    /\ \/ pc = "running" /\ closeCount > 0 /\ Inflight(writeState) = {}
          /\ timers = << >>
       \/ pc = "failed"
    /\ pc' = "exited"
    /\ exitCode' = << 0 >>
    /\ UNCHANGED << options, pathToCollectionMapping, now, timers, rescheduled,
                    collections, msgCount, subAcked, subErr,
                    subJoinDone, subscribed >>
    /\ UnchangedWrites
    /\ UnchangedCfg

\* formatPath applied to one (filename, name)
FormatPathCall ==
    /\ pc = "format"
    /\ fmtResult = Undefined
    /\ fmtResult' = formatPath(fmtFilename, fmtName)
    /\ UNCHANGED << argv, options, pathToCollectionMapping, pc, exitCode,
                    exitReason, now, timers, fired, rescheduled, collections,
                    msgCount, subAcked, subErr, subJoinDone, subscribed,
                    closeCount,
                    filepaths, sinkCalls, sinkData, writeState, writeJoinDone,
                    reportedErr, noCollectionsInfo, closedWithInflight,
                    fmtFilename, fmtName >>

----------------------------------------------------------------------------
(* Inputs *)

Alphabet == { "%", "s", "d", "a" }
Templates == SeqsUpTo(Alphabet, MaxLen)
Names == { << "c" >>, << "d" >> }

\* output options: template, literals, bare '%', another placeholder first
FileNames == { << "%", "s" >>, << "a" >>, << "b" >>, << "a", "%" >>,
               << "%", "d", "%", "s" >> }

UserTimeouts == { << >> } \cup { << k * TickMs >> : k \in 0..MaxTimeoutTicks }
Urls == { "none", "ws:", "wss:", "http:" }

InitRest ==
    /\ options = [ colls |-> << >>, all |-> FALSE, timeout |-> 0, files |-> << >>,
                   saveToFile |-> FALSE, mergeCollections |-> TRUE,
                   lastMessageDate |-> 0 ]
    /\ pathToCollectionMapping = << >>
    /\ exitCode = << >>
    /\ exitReason = "none"
    /\ now = 0
    /\ timers = << >>
    /\ fired = 0
    /\ rescheduled = FALSE
    /\ collections = << >>
    /\ msgCount = 0
    /\ subAcked = {}
    /\ subErr = {}
    /\ subJoinDone = FALSE
    /\ subscribed = {}
    /\ closeCount = 0
    /\ filepaths = << >>
    /\ sinkCalls = << >>
    /\ sinkData = << >>
    /\ writeState = << >>
    /\ writeJoinDone = FALSE
    /\ reportedErr = FALSE
    /\ noCollectionsInfo = FALSE
    /\ closedWithInflight = FALSE

NoArgv == [ colls |-> << >>, output |-> << >>, all |-> FALSE,
            timeout |-> << >>, url |-> "none" ]

\* every template and name handed to formatPath
InitFmt ==
    /\ pc = "format"
    /\ argv = NoArgv
    /\ fmtFilename \in Templates \cup { Undefined }
    /\ fmtName \in Names
    /\ fmtResult = Undefined
    /\ InitRest

NextFmt == FormatPathCall

SpecFmt == InitFmt /\ [][NextFmt]_vars

\* every command line within the bounds
InitCfg ==
    /\ pc = "main"
    /\ argv \in [ colls : SeqsUpTo(Names, MaxColls),
                  output : SeqsUpTo(FileNames, MaxFiles),
                  all : BOOLEAN,
                  timeout : UserTimeouts,
                  url : Urls ]
    /\ fmtFilename = Undefined
    /\ fmtName = << >>
    /\ fmtResult = Undefined
    /\ InitRest

NextCfg == Main

SpecCfg == InitCfg /\ [][NextCfg]_vars

StoreNames == { << "c" >>, << "x" >> }
SubErrs == { NoErr, "suberr" }
WriteErrs == { NoErr, "EACCES" }

\* the command lines the run is explored for
RunArgv ==
    [ colls : { << >>, << << "c" >> >>, << << "c" >>, << "d" >> >> },
      output : { << >>, << << "%", "s" >> >>, << << "a" >> >>,
                 << << "a" >>, << "b" >> >> },
      all : BOOLEAN,
      timeout : UserTimeouts,
      url : { "none" } ]

Init ==
    /\ pc = "main"
    /\ argv \in RunArgv
    /\ fmtFilename = Undefined
    /\ fmtName = << >>
    /\ fmtResult = Undefined
    /\ InitRest

Next ==
    \/ Main
    \/ ConnectOk
    \/ ConnectFailed
    \/ \E i \in 1..MaxColls, err \in SubErrs : SubAck(i, err)
    \/ MessageOther
    \/ \E name \in StoreNames : MessageAdded(name)
    \/ Tick
    \/ \E k \in 1..Len(timers) : TimerFire(k)
    \/ \E i \in 1..Len(writeState), err \in WriteErrs : WriteDone(i, err)
    \/ ProcessExit

Spec == Init /\ [][Next]_vars

\* timers run once they are due, the clock advances, and fs.writeFile calls
\* back; the server owes neither a message nor a subscription answer
Fairness ==
    /\ WF_vars(Tick)
    /\ WF_vars(\E k \in 1..Len(timers) : TimerFire(k))
    /\ WF_vars(\E i \in 1..Len(writeState), err \in WriteErrs : WriteDone(i, err))

\* the command lines the fair runs are explored for: no collection or two,
\* console or one file per collection, no --timeout (0, or the default with
\* --all)
LiveArgv ==
    [ colls : { << >>, << << "c" >>, << "d" >> >> },
      output : { << >>, << << "%", "s" >> >> },
      all : BOOLEAN,
      timeout : { << >> },
      url : { "none" } ]

LiveInit ==
    /\ pc = "main"
    /\ argv \in LiveArgv
    /\ fmtFilename = Undefined
    /\ fmtName = << >>
    /\ fmtResult = Undefined
    /\ InitRest

LiveSpec == LiveInit /\ [][Next]_vars /\ Fairness

----------------------------------------------------------------------------
(* Claims about path templating and the initial mapping *)

\* the template with its first '%s' replaced by the name
ReplaceFirstMarker(f, name) ==
    LET at == IndexOf(f, Str_pct_s)
    IN  SubSeq(f, 1, at) \o name \o SubSeq(f, at + 3, Len(f))

\* the three-case reference of path templating
TemplateReference(filename, name) ==
    IF filename = Undefined \/ filename = << >>
    THEN name \o << ".", "j", "s", "o", "n" >>
    ELSE IF HasMarker(filename) THEN ReplaceFirstMarker(filename, name)
    ELSE filename

\* C10: for every template and name, formatPath returns "<name>.json" for an
\* absent or empty template, the template with its first %s replaced by the
\* name when it has one, and the template unchanged otherwise.
C10_FormatPathIsReference ==
    fmtResult # Undefined => fmtResult = TemplateReference(fmtFilename, fmtName)

\* the command line is in merge mode with a single literal output
MergeToFile(o) ==
    /\ Len(o.output) = 1
    /\ ~ HasMarker(o.output[1])
    /\ Len(o.colls) # 1
    /\ Len(o.colls) >= 1

\* C8: with no output option the initial mapping is the single console
\* destination holding C in order; with one output without marker and
\* len(C) # 1 it is the single destination O[0], verbatim, holding C in order.
C8_MergeSingleDestination ==
    pc = "connecting" =>
        /\ (Len(argv.output) = 0 /\ Len(argv.colls) >= 1) =>
               pathToCollectionMapping =
                   << [ path |-> Str_null, colls |-> argv.colls ] >>
        /\ MergeToFile(argv) =>
               pathToCollectionMapping =
                   << [ path |-> argv.output[1], colls |-> argv.colls ] >>

\* split mode: one template with marker, or as many outputs as collections
SplitMode(o) ==
    /\ Len(o.output) >= 1
    /\ \/ HasMarker(o.output[1]) /\ Len(o.output) = 1
       \/ Len(o.output) = Len(o.colls)

\* the path split mode gives the i-th collection
SplitPath(o, i) ==
    formatPath(IF HasMarker(o.output[1]) THEN o.output[1] ELSE o.output[i],
               o.colls[i])

SplitPathsDistinct(o) ==
    \A i, j \in 1..Len(o.colls) : i # j => SplitPath(o, i) # SplitPath(o, j)

\* the collections, in order, among the first n that split mode sends to path p
RECURSIVE CollsWithPath(_, _, _)
CollsWithPath(o, p, n) ==
    IF n = 0 THEN << >>
    ELSE IF SplitPath(o, n) = p
    THEN Append(CollsWithPath(o, p, n - 1), o.colls[n])
    ELSE CollsWithPath(o, p, n - 1)

FirstWithPath(o, p) ==
    CHOOSE i \in 1..Len(o.colls) :
        /\ SplitPath(o, i) = p
        /\ \A j \in 1..Len(o.colls) : SplitPath(o, j) = p => i <= j

\* C9 as stated: in split mode the initial mapping has len(C) destinations,
\* the i-th being formatPath(O[0] or O[i], C[i]) with the list [C[i]].
C9_SplitOneDestinationEach ==
    (pc = "connecting" /\ SplitMode(argv)) =>
        /\ Len(pathToCollectionMapping) = Len(argv.colls)
        /\ \A i \in 1..Len(argv.colls) :
               pathToCollectionMapping[i] =
                   [ path |-> SplitPath(argv, i), colls |-> << argv.colls[i] >> ]

\* C9 amended: in split mode the initial mapping has one destination per
\* distinct formatted path, in order of first occurrence, holding in order the
\* collections formatted to it; when the formatted paths are pairwise
\* distinct these are len(C) destinations of one collection each, in order.
C9_SplitByFormattedPath ==
    (pc = "connecting" /\ SplitMode(argv)) =>
        /\ Len(pathToCollectionMapping) =
               Cardinality({ SplitPath(argv, i) : i \in 1..Len(argv.colls) })
        /\ \A i \in 1..Len(argv.colls) :
               \E k \in 1..Len(pathToCollectionMapping) :
                   pathToCollectionMapping[k] =
                       [ path |-> SplitPath(argv, i),
                         colls |-> CollsWithPath(argv, SplitPath(argv, i),
                                                 Len(argv.colls)) ]
        /\ \A k, l \in 1..Len(pathToCollectionMapping) :
               k < l => FirstWithPath(argv, pathToCollectionMapping[k].path)
                          < FirstWithPath(argv, pathToCollectionMapping[l].path)
        /\ SplitPathsDistinct(argv) =>
               /\ Len(pathToCollectionMapping) = Len(argv.colls)
               /\ \A i \in 1..Len(argv.colls) :
                      pathToCollectionMapping[i] =
                          [ path |-> SplitPath(argv, i),
                            colls |-> << argv.colls[i] >> ]

\* positional split of two collections over two different files
C9_Witness ==
    /\ pc = "connecting"
    /\ SplitMode(argv)
    /\ ~ HasMarker(argv.output[1])
    /\ Len(argv.colls) = 2
    /\ SplitPathsDistinct(argv)
    /\ Len(pathToCollectionMapping) = 2

\* the two output configurations the claim names as fatal
AmbiguousOutputs(o) ==
    /\ Len(o.output) > 1
    /\ \/ HasMarker(o.output[1])
       \/ Len(o.output) # Len(o.colls)

\* main exited with status 1 before doing anything
ExitedAtStartup ==
    /\ pc = "exited"
    /\ exitCode = << 1 >>
    /\ pathToCollectionMapping = << >>
    /\ timers = << >>
    /\ subAcked = {}
    /\ closeCount = 0
    /\ sinkCalls = << >>
    /\ fired = 0

\* C7 as stated: the two ambiguous output configurations exit at once with
\* status 1 and without mapping, connection, subscription or sink; every
\* other (C, O) raises no configuration error.
C7_FatalConfigIffAmbiguous ==
    pc # "main" =>
        /\ AmbiguousOutputs(argv) => ExitedAtStartup
        /\ ~ AmbiguousOutputs(argv) => (pc # "exited" /\ exitReason = "none")

\* C7 amended: as stated, the second half for the command lines that name a
\* collection or set --all, and give no URL or a ws:/wss: one.
C7_FatalConfigAmended ==
    pc # "main" =>
        /\ AmbiguousOutputs(argv) => ExitedAtStartup
        /\ (/\ ~ AmbiguousOutputs(argv)
            /\ (Len(argv.colls) > 0 \/ argv.all)
            /\ ~ UnknownProtocol(argv))
               => (pc # "exited" /\ exitReason = "none")

\* more files than collections, without marker: the second fatal case
C7_Witness ==
    /\ pc = "exited"
    /\ exitReason = "more-files-than-collections"
    /\ Len(argv.colls) = 1
    /\ Len(argv.output) = 2
    /\ exitCode = << 1 >>

----------------------------------------------------------------------------
(* Claims about the run *)

Elapsed == now - options.lastMessageDate
AllSubscribed == subAcked = 1..Len(argv.colls)
DetectorStarted == timers # << >> \/ fired > 0
AllWritesCalledBack ==
    /\ fired > 0
    /\ Len(sinkCalls) = Len(pathToCollectionMapping)
    /\ \A i \in 1..Len(sinkCalls) : sinkCalls[i] >= 1
    /\ Inflight(writeState) = {}

\* C1: whenever receivedLastDDPMessage is called, the time since the last
\* inbound message is strictly greater than the timeout; a check that finds
\* elapsed <= timeout calls nothing and arms the same check again.
C1_IdleCompletionSafety ==
    [][ /\ fired' # fired => Elapsed > options.timeout
        /\ ((\E k \in 1..Len(timers) : TimerFire(k)) /\ Elapsed <= options.timeout)
              => /\ fired' = fired
                 /\ closeCount' = closeCount
                 /\ sinkCalls' = sinkCalls
                 /\ Len(timers') = Len(timers)
                 /\ timers'[Len(timers')] = now + options.timeout ]_vars

\* completion after a check that had to be armed again because of a message
C1_Witness ==
    /\ fired = 1
    /\ rescheduled
    /\ options.timeout > 0
    /\ msgCount >= 2

\* C2: once connected with every subscription answered, and inbound messages
\* having stopped, completion fires, every destination's write is issued and
\* called back, and the connection is closed, for timeout 0 as well.
C2_CompletionLiveness ==
    (pc = "running" /\ AllSubscribed)
        ~> (fired > 0 /\ AllWritesCalledBack /\ closeCount > 0)

\* with timeout 0 a check saw elapsed = 0 and was armed again before the end
C2_Witness ==
    /\ options.timeout = 0
    /\ rescheduled
    /\ fired = 1
    /\ closeCount = 1
    /\ AllWritesCalledBack
    /\ Len(writeState) >= 2

\* C3: ddp.close() is called, and write errors are reported, only after
\* every destination's sink has called back.
C3_CloseAfterAllWrites ==
    /\ closeCount > 0 => Inflight(writeState) = {}
    /\ reportedErr => Inflight(writeState) = {}
    /\ ~ closedWithInflight

\* C4: whichever writes fail, writeData is called exactly once for each
\* destination of the mapping and ddp.close() exactly once.
C4_EachSinkOnceCloseOnce ==
    /\ closeCount <= 1
    /\ fired > 0 =>
          /\ filepaths = ObjectKeys(pathToCollectionMapping)
          /\ \A i, j \in 1..Len(filepaths) : i # j => filepaths[i] # filepaths[j]
          /\ Len(sinkCalls) = Len(filepaths)
          /\ \A i \in 1..Len(sinkCalls) : sinkCalls[i] = 1
    /\ fired = 0 => (sinkCalls = << >> /\ closeCount = 0)
    /\ (fired > 0 /\ Inflight(writeState) = {}) => closeCount = 1

\* two destinations, the first write failed, the second succeeded
C4_Witness ==
    /\ Len(writeState) = 2
    /\ writeState[1] = "err"
    /\ writeState[2] = "ok"
    /\ sinkCalls = << 1, 1 >>
    /\ closeCount = 1

\* the join over the subscriptions: the detector starts exactly when the
\* last subscribe callback has run, whatever errors the callbacks carried
SubscriptionJoin ==
    (Len(argv.colls) > 0 /\ pc \in { "running", "exited" }) =>
        /\ DetectorStarted => AllSubscribed
        /\ AllSubscribed => (subJoinDone /\ DetectorStarted)
        /\ subErr # {} => exitCode # << 1 >>

\* C5: whichever subscribe callbacks report an error, the completion
\* detector starts once all callbacks have arrived and not before, and the
\* run still completes, writes every destination and closes the connection.
C5_SubscriptionFailureNotFatal ==
    /\ [] SubscriptionJoin
    /\ (pc = "running" /\ AllSubscribed /\ subErr # {})
           ~> (fired > 0 /\ AllWritesCalledBack /\ closeCount > 0)

\* one of two subscriptions failed; both destinations written, then closed
C5_Witness ==
    /\ Len(argv.colls) = 2
    /\ subErr = { 1 }
    /\ AllSubscribed
    /\ Len(filepaths) = 2
    /\ AllWritesCalledBack
    /\ closeCount = 1

\* C6: after the connect callback reported an error the process has
\* terminated with a non-zero exit status.
C6_FailedHandshakeIsFatal ==
    pc = "failed" => (exitCode # << >> /\ exitCode # << 0 >>)

----------------------------------------------------------------------------
(* Claims about the export: what is written, and where *)

Range(seq) == { seq[k] : k \in 1..Len(seq) }

\* the entries of the store under the names in cols
StoreEntries(cols, store) ==
    { store[k] : k \in { j \in 1..Len(store) : store[j].name \in Range(cols) } }

\* buffer is an object with one key for every name of cols that the store
\* holds, each with the store's value, and no other key
BufferIsStoreRestrictedTo(buffer, cols, store) ==
    /\ Range(buffer) = StoreEntries(cols, store)
    /\ \A a, b \in 1..Len(buffer) : buffer[a].name = buffer[b].name => a = b

\* C11: when completion is detected, every destination d of the mapping gets
\* one call of the sink, and the data handed to it is the store restricted
\* to the collections mapped to d that the store holds at that moment: a
\* mapped name missing from the store is left out without preventing the
\* write, no other collection appears, and one collection alone is still an
\* object keyed by its name.
C11_SerializedContent ==
    [][ fired' # fired =>
          /\ Len(sinkData') = Len(pathToCollectionMapping')
          /\ \A d \in 1..Len(sinkData') :
                /\ BufferIsStoreRestrictedTo(sinkData'[d],
                                             pathToCollectionMapping'[d].colls,
                                             collections)
                /\ sinkCalls'[d] = 1 ]_vars

\* a destination with two mapped collections was written with the only one
\* of them the store held
C11_Witness ==
    /\ fired = 1
    /\ \E d \in 1..Len(sinkData) :
          /\ Len(pathToCollectionMapping[d].colls) = 2
          /\ Len(sinkData[d]) = 1
          /\ sinkCalls[d] = 1
          /\ sinkData[d][1].name \in Range(pathToCollectionMapping[d].colls)
    /\ Len(collections) = 1

\* how often name occurs in the lists of the mapping, over all destinations
Occurrences(mapping, name) ==
    Cardinality({ p \in UNION { { << d, k >> : k \in 1..Len(mapping[d].colls) } :
                                d \in 1..Len(mapping) } :
                  mapping[p[1]].colls[p[2]] = name })

InitialMappingOf(a) == initialMapping(processCliOptions(a), Len(a.colls))

\* the collections receivedLastDDPMessage has pushed to options.colls
Discovered == Range(options.colls) \ Range(argv.colls)

\* C12: with --all, the mapping is the one built from the command line in
\* every state before completion is detected, whatever the store holds; the
\* completion step puts every collection the store then holds and that was
\* not requested into the mapping exactly once and leaves the requested ones
\* as they were, running the extension again on its result changes nothing,
\* and afterwards every discovered collection stays in the mapping once.
C12_LateDiscovery ==
    /\ [] ((argv.all /\ pc # "main" /\ exitReason = "none" /\ fired = 0) =>
               /\ pathToCollectionMapping = InitialMappingOf(argv)
               /\ options.colls = argv.colls)
    /\ [] ((argv.all /\ fired > 0) =>
               \A name \in Discovered :
                   Occurrences(pathToCollectionMapping, name) = 1)
    /\ [][ (options.all /\ fired' # fired) =>
             /\ \A k \in 1..Len(collections) :
                   IF collections[k].name \in Range(argv.colls)
                   THEN Occurrences(pathToCollectionMapping', collections[k].name)
                          = Occurrences(pathToCollectionMapping, collections[k].name)
                   ELSE /\ collections[k].name \in Range(options'.colls)
                        /\ Occurrences(pathToCollectionMapping',
                                       collections[k].name) = 1
             /\ extendMapping(options', pathToCollectionMapping', collections)
                  = [ opts |-> options', mapping |-> pathToCollectionMapping' ]
           ]_vars

\* --all with c requested: the store held c and x at completion, x was added
\* to the mapping once and c was not added again
C12_Witness ==
    /\ argv.all
    /\ argv.colls = << << "c" >> >>
    /\ fired = 1
    /\ Len(collections) = 2
    /\ Discovered = { << "x" >> }
    /\ Occurrences(pathToCollectionMapping, << "x" >>) = 1
    /\ Occurrences(pathToCollectionMapping, << "c" >>) = 1

----------------------------------------------------------------------------
(* Claims about the timeout and the start of the completion detector *)

\* C13: the threshold the completion detector compares with is the value of
\* --timeout whenever one is given, 0 included and with or without --all;
\* without --timeout it is 800 with --all and 0 otherwise.
C13_TimeoutThreshold ==
    pc = "connecting" =>
        options.timeout = IF argv.timeout # << >> THEN argv.timeout[1]
                          ELSE IF argv.all THEN defaultTimeout
                          ELSE 0

C15_DetectorStartOrdering ==
    /\ [] ((Len(argv.colls) > 0 /\ ~ AllSubscribed) =>
               /\ timers = << >>
               /\ fired = 0
               /\ sinkCalls = << >>
               /\ closeCount = 0)
    /\ [][ /\ (Len(argv.colls) > 0 /\ timers = << >> /\ timers' # << >>) =>
                  (subAcked' # subAcked /\ subAcked' = 1..Len(argv.colls))
           /\ (pc = "connecting" /\ pc' = "running") =>
                  IF Len(argv.colls) = 0
                  THEN Len(timers') = 1 /\ subscribed' = {}
                  ELSE timers' = << >> /\ subscribed' = 1..Len(argv.colls)
         ]_vars

\* the second of two subscriptions was answered first and the other one is
\* still missing after more than the timeout: no check is armed
C15_Witness ==
    /\ pc = "running"
    /\ Len(argv.colls) = 2
    /\ subAcked = { 2 }
    /\ Elapsed > options.timeout
    /\ timers = << >>
    /\ fired = 0

----------------------------------------------------------------------------
(* Claims about the mapping *)

\* the destination of a collection found in the store at completion: path
\* templating of the first --output, the console without one
ExtensionDestination(collName) ==
    PropertyKey(IF options.saveToFile
                THEN formatPath(options.files[1], collName)
                ELSE Null)

\* the names the store holds that are not in options.colls, in store order
NewlyDiscovered ==
    SelectSeq([ k \in 1..Len(collections) |-> collections[k].name ],
              LAMBDA name : name \notin Range(options.colls))

ListOf(mapping, key) ==
    IF KeyIndex(mapping, key) = 0 THEN << >>
    ELSE mapping[KeyIndex(mapping, key)].colls

\* C16 as stated: the collection discovered at completion is put under the
\* destination templated from the first --output (the console without one),
\* and afterwards that destination's list holds the discovered collection
\* only.
C16_ExtensionNewEntry ==
    [][ (options.all /\ fired' # fired) =>
          \A k \in 1..Len(NewlyDiscovered) :
              ListOf(pathToCollectionMapping',
                     ExtensionDestination(NewlyDiscovered[k]))
                = << NewlyDiscovered[k] >> ]_vars

\* C16, amended: the discovered collection is appended to the list of the
\* destination templated from the first --output (the console without one),
\* behind the collections that destination already had: the list afterwards
\* is the list before followed by the discovered collections of that
\* destination in store order, and holds the discovered one alone only if no
\* other collection has the same destination.
C16_ExtensionAppends ==
    [][ (options.all /\ fired' # fired) =>
          \A k \in 1..Len(NewlyDiscovered) :
              LET key == ExtensionDestination(NewlyDiscovered[k])
              IN  ListOf(pathToCollectionMapping', key)
                    = ListOf(pathToCollectionMapping, key)
                      \o SelectSeq(NewlyDiscovered,
                                   LAMBDA name : ExtensionDestination(name) = key)
      ]_vars

\* --all -o a c: the store held c and x, and x was appended to the list of a
C16_Witness ==
    /\ argv.all
    /\ argv.output = << << "a" >> >>
    /\ fired = 1
    /\ pathToCollectionMapping =
           << [ path |-> << "a" >>, colls |-> << << "c" >>, << "x" >> >> ] >>

HowOften(seq, x) == Cardinality({ k \in 1..Len(seq) : seq[k] = x })

\* the destinations of the mapping whose list holds name
DestinationsOf(mapping, name) ==
    { d \in 1..Len(mapping) : name \in Range(mapping[d].colls) }

\* C17 as stated: for every accepted command line, repeated collection names
\* and repeated paths included, every requested collection name is in the
\* list of exactly one destination of the initial mapping, exactly once.
C17_MappingEachNameOnce ==
    pc = "connecting" =>
        \A name \in Range(argv.colls) :
            /\ Cardinality(DestinationsOf(pathToCollectionMapping, name)) = 1
            /\ Occurrences(pathToCollectionMapping, name) = 1

\* C17, amended: for every accepted command line, every requested name is in
\* the initial mapping as often as it is on the command line and nothing
\* else is in it; a name given once is therefore in the list of exactly one
\* destination, exactly once, also if several paths are equal.
C17_MappingEachPositionOnce ==
    pc = "connecting" =>
        /\ \A name \in Range(argv.colls) :
              /\ Occurrences(pathToCollectionMapping, name)
                   = HowOften(argv.colls, name)
              /\ HowOften(argv.colls, name) = 1 =>
                     Cardinality(DestinationsOf(pathToCollectionMapping, name)) = 1
        /\ \A d \in 1..Len(pathToCollectionMapping) :
              /\ pathToCollectionMapping[d].colls # << >>
              /\ Range(pathToCollectionMapping[d].colls) \subseteq Range(argv.colls)
        /\ \A d, e \in 1..Len(pathToCollectionMapping) :
              pathToCollectionMapping[d].path = pathToCollectionMapping[e].path
                  => d = e

\* -o a -o a d d: the name is given twice and both paths are equal, so the
\* one destination lists d twice
C17_Witness ==
    /\ pc = "connecting"
    /\ argv.colls = << << "d" >>, << "d" >> >>
    /\ argv.output = << << "a" >>, << "a" >> >>
    /\ pathToCollectionMapping =
           << [ path |-> << "a" >>, colls |-> << << "d" >>, << "d" >> >> ] >>

----------------------------------------------------------------------------
(* Claims about failures *)

HasKey(buffer, name) == \E k \in 1..Len(buffer) : buffer[k].name = name

\* C18 as stated: the data handed to a sink has no key for a requested
\* collection whose subscribe callback carried an error, whatever the store
\* holds under that name when the data is gathered.
C18_FailedSubscriptionNoData ==
    [][ fired' # fired =>
          \A i \in subErr : \A d \in 1..Len(sinkData') :
              ~ HasKey(sinkData'[d], argv.colls[i]) ]_vars

\* C18, amended: for a requested collection whose subscribe callback carried
\* an error, the data handed to the sink of its destination has a key for
\* it exactly if the store holds a collection of that name when the data is
\* gathered, and then with the store's content; no other sink gets the key.
C18_FailedSubscriptionStoreDecides ==
    [][ fired' # fired =>
          \A i \in subErr : \A d \in 1..Len(sinkData') :
              LET name == argv.colls[i]
              IN  IF d \in DestinationsOf(pathToCollectionMapping', name)
                  THEN /\ HasKey(sinkData'[d], name)
                            <=> StoreIndex(collections, name) # 0
                       /\ HasKey(sinkData'[d], name) =>
                            collections[StoreIndex(collections, name)]
                                \in Range(sinkData'[d])
                  ELSE ~ HasKey(sinkData'[d], name) ]_vars

\* the subscription of c failed, the store held c all the same, and c was
\* handed to the sink
C18_Witness ==
    /\ argv.colls = << << "c" >> >>
    /\ subErr = { 1 }
    /\ fired = 1
    /\ sinkCalls = << 1 >>
    /\ HasKey(sinkData[1], << "c" >>)

\* C19: if the mapping is empty when completion is detected (--all without
\* requested collections, nothing received), no sink is called, 'No
\* collections received' is printed as information, no error is reported,
\* the connection is closed all the same and the exit status is not an
\* error status; the information is printed in no other case.
C19_ZeroDestinations ==
    /\ (fired > 0 /\ pathToCollectionMapping = << >>) =>
           /\ sinkCalls = << >>
           /\ sinkData = << >>
           /\ writeState = << >>
           /\ noCollectionsInfo
           /\ ~ reportedErr
           /\ closeCount = 1
           /\ exitCode \in { << >>, << 0 >> }
    /\ noCollectionsInfo =>
           (fired > 0 /\ pathToCollectionMapping = << >> /\ argv.all
              /\ argv.colls = << >>)

\* --all -o a with an empty store at completion: closed, nothing written
C19_Witness ==
    /\ argv.all
    /\ argv.colls = << >>
    /\ argv.output = << << "a" >> >>
    /\ fired = 1
    /\ collections = << >>
    /\ pathToCollectionMapping = << >>
    /\ noCollectionsInfo
    /\ closeCount = 1

\* C20: once the connect callback has reported an error, no subscription has
\* been or is ever issued, no check of the completion detector is ever
\* armed, receivedLastDDPMessage never runs and no sink is ever called.
C20_NoExportAfterFailedHandshake ==
    /\ [] (pc = "failed" =>
               /\ subscribed = {}
               /\ subAcked = {}
               /\ timers = << >>
               /\ fired = 0
               /\ sinkCalls = << >>
               /\ sinkData = << >>
               /\ writeState = << >>)
    /\ [][ pc = "failed" =>
               UNCHANGED << subscribed, subAcked, timers, fired, sinkCalls,
                            sinkData, writeState, pathToCollectionMapping >>
         ]_vars

\* the handshake failed for a command line with two collections and a file
\* per collection
C20_Witness ==
    /\ pc = "failed"
    /\ Len(argv.colls) = 2
    /\ argv.output = << << "%", "s" >> >>
    /\ Len(pathToCollectionMapping) = 2

----------------------------------------------------------------------------
(* Claims about what the run leaves alone *)

\* the collection names in the data handed to the sinks
SinkKeys ==
    UNION { { sinkData[d][k].name : k \in 1..Len(sinkData[d]) } :
            d \in 1..Len(sinkData) }

\* C21: without --all, the mapping and options.colls are those built from
\* the command line in every state after main has built them, no step
\* changes them, whatever the store holds, and the data handed to the sinks
\* has keys of requested collections only.
C21_MappingFrameWithoutAll ==
    /\ [] ((~ argv.all /\ pc # "main" /\ exitReason = "none") =>
               /\ pathToCollectionMapping = InitialMappingOf(argv)
               /\ options.colls = argv.colls)
    /\ [] (~ argv.all => SinkKeys \subseteq Range(argv.colls))
    /\ [][ (~ argv.all /\ pc # "main") =>
               /\ pathToCollectionMapping' = pathToCollectionMapping
               /\ options'.colls = options.colls ]_vars

\* without --all, c requested: the store held c and x at completion, the
\* mapping still lists c alone and only c was handed to the sink
C21_Witness ==
    /\ ~ argv.all
    /\ argv.colls = << << "c" >> >>
    /\ fired = 1
    /\ Len(collections) = 2
    /\ pathToCollectionMapping = InitialMappingOf(argv)
    /\ options.colls = argv.colls
    /\ SinkKeys = { << "c" >> }

====
